---- MODULE Spec2Model ----
(***************************************************************************)
(* Model of selfdrive/pandad.py: the boardd wrapper that brings every      *)
(* attached panda to the expected firmware, orders the pandas and runs     *)
(* boardd on their serials, forever.                                       *)
(*                                                                         *)
(* The program is sequential.  One action is one step of main(),           *)
(* get_pandas() or flash_panda(): the driver calls of that step together   *)
(* with the Python code up to the next step.  The panda driver, the DFU    *)
(* driver, the firmware files and boardd are outside the program: what     *)
(* they return is chosen nondeterministically.                             *)
(***************************************************************************)
EXTENDS Integers, Sequences, FiniteSets, TLC

\* ------------------------------------------------------------------
\* Bounds of the model
\* ------------------------------------------------------------------
MaxBoards == 2      \* pandas that Panda.list() can return
MaxDfu == 1         \* devices that PandaDFU.list() can return
MaxSort == 3        \* length of the lists given to the sort on its own
MaxPolls == 2       \* empty polls in a row that are counted

\* ------------------------------------------------------------------
\* Values of the driver
\* ------------------------------------------------------------------
\* serial strings, as tuples of character codes, in ascending str order
SerialPool == << <<1>>, <<1, 2>>, <<2>>, <<2, 1>>, <<3>> >>

Serials == {SerialPool[i] : i \in 1..MaxBoards}

SortSerials == {SerialPool[i] : i \in 1..MaxSort}

\* the lists PandaDFU.list() can return: n devices, in the order of the pool
DfuLists == {SubSeq(SerialPool, 1, n) : n \in 0..MaxDfu}

HW_TYPE_UNO == 5

HW_TYPE_DOS == 6

INTERNAL_TYPES == {HW_TYPE_UNO, HW_TYPE_DOS}

\* the one-byte values get_type() returns: black, uno, dos, red
HwTypes == {3, 5, 6, 7}

\* the types the pandas of main() answer with: one external, one internal;
\* the order inside a group is the business of the sort on its own
AttachedTypes == {3, HW_TYPE_UNO}

MCU_TYPE_H7 == 2

McuTypes == {1, 2}

\* signatures are byte strings; b"" is the empty tuple
EmptySig == << >>

\* signature embedded in the firmware file fn (DEFAULT_FW_FN or DEFAULT_H7_FW_FN)
FwFileSignature(fn) == IF fn = "DEFAULT_H7_FW_FN" THEN <<2>> ELSE <<1>>

\* what panda.get_signature() can return
Signatures == {EmptySig, <<1>>, <<2>>}

\* exit codes of boardd
ExitCodes == {0, 1}

\* ------------------------------------------------------------------
\* Helpers
\* ------------------------------------------------------------------
\* sequences of n distinct elements of S
InjSeqs(S, n) == {f \in [1..n -> S] : \A i, j \in 1..n : i # j => f[i] # f[j]}

\* sequences of lo..hi distinct elements of S
InjSeqsUpTo(S, lo, hi) == UNION {InjSeqs(S, n) : n \in lo..hi}

Range(s) == {s[i] : i \in 1..Len(s)}

\* Python's str <: lexicographic order on the character codes
RECURSIVE StrLess(_, _)
StrLess(a, b) ==
  IF b = << >> THEN FALSE
  ELSE IF a = << >> THEN TRUE
  ELSE IF Head(a) # Head(b) THEN Head(a) < Head(b)
  ELSE StrLess(Tail(a), Tail(b))

\* Python's int(bool)
BoolInt(b) == IF b THEN 1 ELSE 0

\* ------------------------------------------------------------------
\* get_expected_signature
\* ------------------------------------------------------------------
\* extracted is FALSE when Panda.get_signature_from_firmware raises
get_expected_signature(mcu_type, extracted) ==
  LET fn == IF mcu_type = MCU_TYPE_H7 THEN "DEFAULT_H7_FW_FN" ELSE "DEFAULT_FW_FN"
  IN  IF extracted THEN FwFileSignature(fn) ELSE EmptySig

\* ------------------------------------------------------------------
\* panda_sort_cmp and pandas.sort(key=cmp_to_key(panda_sort_cmp))
\* ------------------------------------------------------------------
\* a comparator that answers -1 whenever the types differ
panda_sort_cmp_symmetric(a, b) ==
  IF a.type # b.type THEN -1
  ELSE BoolInt(StrLess(a.serial, b.serial))

\* a comparator with the internal-first answers exchanged
panda_sort_cmp_swapped(a, b) ==
  IF (a.type \in INTERNAL_TYPES) /\ (b.type \notin INTERNAL_TYPES) THEN 1
  ELSE IF (a.type \notin INTERNAL_TYPES) /\ (b.type \in INTERNAL_TYPES) THEN -1
  ELSE IF a.type # b.type THEN BoolInt(a.type < b.type)
  ELSE BoolInt(StrLess(a.serial, b.serial))

\* the value panda_sort_cmp returns, True and False being 1 and 0
panda_sort_cmp(a, b) ==
  IF (a.type \in INTERNAL_TYPES) /\ (b.type \notin INTERNAL_TYPES) THEN -1
  ELSE IF (a.type \notin INTERNAL_TYPES) /\ (b.type \in INTERNAL_TYPES) THEN 1
  ELSE IF a.type # b.type THEN BoolInt(a.type < b.type)
  ELSE BoolInt(StrLess(a.serial, b.serial))

\* cmp_to_key: K(a) < K(b) iff mycmp(a, b) < 0
KeyLess(a, b) == panda_sort_cmp(a, b) < 0

\* list.sort on fewer than 64 elements: the first run is found (and reversed
\* when strictly descending), the rest is inserted by binary insertion
RECURSIVE RunEnd(_, _, _)
RunEnd(s, i, descending) ==
  IF i < Len(s) /\ (KeyLess(s[i + 1], s[i]) = descending)
  THEN RunEnd(s, i + 1, descending)
  ELSE i

ReversePrefix(s, n) ==
  [i \in 1..Len(s) |-> IF i <= n THEN s[n + 1 - i] ELSE s[i]]

\* first position in l..r (r exclusive) whose element pivot is less than
RECURSIVE BinarySearch(_, _, _, _)
BinarySearch(s, pivot, l, r) ==
  IF l >= r THEN l
  ELSE LET p == l + ((r - l) \div 2)
       IN  IF KeyLess(pivot, s[p])
           THEN BinarySearch(s, pivot, l, p)
           ELSE BinarySearch(s, pivot, p + 1, r)

\* s[1..start-1] is sorted; insert s[start], s[start+1], ...
RECURSIVE BinarySort(_, _)
BinarySort(s, start) ==
  IF start > Len(s) THEN s
  ELSE LET pivot == s[start]
           l == BinarySearch(s, pivot, 1, start)
           t == [i \in 1..Len(s) |->
                   IF i < l THEN s[i]
                   ELSE IF i = l THEN pivot
                   ELSE IF i <= start THEN s[i - 1]
                   ELSE s[i]]
       IN  BinarySort(t, start + 1)

Sort(s) ==
  IF Len(s) < 2 THEN s
  ELSE LET descending == KeyLess(s[2], s[1])
           n == RunEnd(s, 2, descending)
           run == IF descending THEN ReversePrefix(s, n) ELSE s
       IN  BinarySort(run, n + 1)

\* ------------------------------------------------------------------
\* State
\* ------------------------------------------------------------------
VARIABLES
  pc,             \* where main() is
  dfu,            \* get_pandas: the serials PandaDFU.list() returned
  serials,        \* get_pandas: the serials Panda.list() returned
  idx,            \* index of the running for loop
  panda,          \* flash_panda: the panda being flashed and its locals
  pandas,         \* the Panda objects flashed so far (r, then main's pandas)
  panda_serials,  \* main: the arguments of boardd
  heartbeatLost,  \* Params: PandaHeartbeatLost
  returncode,     \* << >>, or the exit code of the last boardd
  failure,        \* the exception that ended the process, or "none"
  calls,          \* history: the driver calls of this iteration, in order
  obs,            \* history: what flash_panda saw at its final checks
  health,         \* main: the health record read last
  events,         \* history: the serials of the events emitted in this iteration
  polls,          \* history: the empty polls of the running wait, up to MaxPolls
  sortpc,         \* the sort on its own: its step
  boards,         \* the sort on its own: the list given
  sorted,         \* the sort on its own: the list sorted
  resorted,       \* the sort on its own: the sorted list sorted again
  other,          \* the sort on its own: the same boards in another order
  otherSorted     \* the sort on its own: that list sorted

mainVars == <<pc, dfu, serials, idx, panda, pandas, panda_serials,
              heartbeatLost, returncode, failure, calls, obs,
              health, events, polls>>

sortVars == <<sortpc, boards, sorted, resorted, other, otherSorted>>

vars == <<pc, dfu, serials, idx, panda, pandas, panda_serials,
          heartbeatLost, returncode, failure, calls, obs,
          health, events, polls,
          sortpc, boards, sorted, resorted, other, otherSorted>>

\* no health record has been read
NoHealth == [heartbeat_lost |-> FALSE]

\* no panda is being flashed
NoPanda == [serial |-> << >>, bootstub |-> FALSE, fw_signature |-> EmptySig,
            panda_signature |-> EmptySig, bootstub0 |-> FALSE,
            bootstub1 |-> FALSE]

MainInit ==
  /\ pc = "start"
  /\ dfu = << >>
  /\ serials = << >>
  /\ idx = 1
  /\ panda = NoPanda
  /\ pandas = << >>
  /\ panda_serials = << >>
  /\ heartbeatLost = FALSE
  /\ returncode = << >>
  /\ failure = "none"
  /\ calls = << >>
  /\ obs = << >>
  /\ health = NoHealth
  /\ events = << >>
  /\ polls = 0

SortIdle ==
  /\ sortpc = "idle"
  /\ boards = << >>
  /\ sorted = << >>
  /\ resorted = << >>
  /\ other = << >>
  /\ otherSorted = << >>

Init == MainInit /\ SortIdle

\* an exception that is caught, the loop going on with its next round
RaiseCaught(reason) ==
  /\ pc' = "start"
  /\ failure' = reason

\* an exception leaves main(): the process ends
Raise(reason) ==
  /\ pc' = "crashed"
  /\ failure' = reason

\* ------------------------------------------------------------------
\* get_pandas
\* ------------------------------------------------------------------
\* the for loop over PandaDFU.list() left out
AfterDfuListSkipped(l) == "poll"

\* for p in PandaDFU.list(): the loop body runs when the list is not empty
AfterDfuList(l) == IF l = << >> THEN "poll" ELSE "dfu"

\* PandaDFU.list()
ListDFU ==
  /\ pc = "start"
  /\ \E l \in DfuLists :
       /\ dfu' = l
       /\ pc' = AfterDfuList(l)
  /\ idx' = 1
  /\ returncode' = << >>
  /\ UNCHANGED <<serials, panda, pandas, panda_serials, heartbeatLost,
                 failure, calls, obs>>
  /\ UNCHANGED <<health, events, polls>>
  /\ UNCHANGED sortVars

\* PandaDFU(p).recover(); time.sleep(1)
DfuRecover ==
  /\ pc = "dfu"
  /\ calls' = Append(calls, <<"dfu_recover", dfu[idx]>>)
  /\ \/ /\ IF idx = Len(dfu)
           THEN pc' = "poll" /\ idx' = 1
           ELSE pc' = "dfu" /\ idx' = idx + 1
        /\ UNCHANGED failure
     \/ /\ Raise("driver")
        /\ UNCHANGED idx
  /\ UNCHANGED <<dfu, serials, panda, pandas, panda_serials, heartbeatLost,
                 returncode, obs>>
  /\ UNCHANGED <<health, events, polls>>
  /\ UNCHANGED sortVars

\* while not pandas, with a single attempt
AfterPollOnce(l) == IF l = << >> THEN "crashed" ELSE "open"

\* while not pandas: an empty list goes round again
AfterPoll(l) == IF l = << >> THEN "poll" ELSE "open"

\* one round of while not pandas: Panda.list(), and the sleep when it is empty
PandaList ==
  /\ pc = "poll"
  /\ \E l \in InjSeqsUpTo(Serials, 0, MaxBoards) :
       /\ serials' = l
       /\ pc' = AfterPoll(l)
       /\ polls' = IF l # << >> THEN 0
                   ELSE IF polls < MaxPolls THEN polls + 1 ELSE polls
  /\ idx' = 1
  /\ UNCHANGED <<dfu, panda, pandas, panda_serials, heartbeatLost, returncode,
                 failure, calls, obs>>
  /\ UNCHANGED <<health, events>>
  /\ UNCHANGED sortVars

\* ------------------------------------------------------------------
\* flash_panda
\* ------------------------------------------------------------------
\* the condition of the first if: an update is required
UpdateRequiredBootstubOnly(bootstub, panda_signature, fw_signature) == bootstub

UpdateRequiredAlways(bootstub, panda_signature, fw_signature) == TRUE

UpdateRequiredSignatureOnly(bootstub, panda_signature, fw_signature) ==
  panda_signature # fw_signature

UpdateRequired(bootstub, panda_signature, fw_signature) ==
  bootstub \/ panda_signature # fw_signature

\* Panda(panda_serial), the expected signature, the version and the signature
FlashPandaOpen ==
  /\ pc = "open"
  /\ LET serial == serials[idx] IN
     \/ /\ calls' = Append(calls, <<"open", serial>>)
        /\ Raise("driver")
        /\ UNCHANGED panda
     \/ \E bootstub \in BOOLEAN, mcu_type \in McuTypes, extracted \in BOOLEAN,
           signature \in Signatures :
          LET fw_signature == get_expected_signature(mcu_type, extracted)
              panda_signature == IF bootstub THEN EmptySig ELSE signature
          IN  /\ bootstub => signature = EmptySig
              /\ calls' = calls \o << <<"open", serial>> >> \o
                    (IF bootstub THEN << >>
                     ELSE << <<"get_version", serial>>, <<"get_signature", serial>> >>)
              /\ panda' = [serial |-> serial, bootstub |-> bootstub,
                           fw_signature |-> fw_signature,
                           panda_signature |-> panda_signature,
                           bootstub0 |-> bootstub, bootstub1 |-> bootstub]
              /\ pc' = IF UpdateRequired(bootstub, panda_signature, fw_signature)
                       THEN "flash"
                       ELSE IF bootstub THEN "recover" ELSE "verify"
              /\ UNCHANGED failure
  /\ UNCHANGED <<dfu, serials, idx, pandas, panda_serials, heartbeatLost,
                 returncode, obs>>
  /\ UNCHANGED <<health, events, polls>>
  /\ UNCHANGED sortVars

\* panda.flash()
FlashPandaFlash ==
  /\ pc = "flash"
  /\ calls' = Append(calls, <<"flash", panda.serial>>)
  /\ \/ /\ Raise("driver")
        /\ UNCHANGED panda
     \/ \E bootstub \in BOOLEAN :
          /\ panda' = [panda EXCEPT !.bootstub = bootstub, !.bootstub1 = bootstub]
          /\ pc' = IF bootstub THEN "recover" ELSE "verify"
          /\ UNCHANGED failure
  /\ UNCHANGED <<dfu, serials, idx, pandas, panda_serials, heartbeatLost,
                 returncode, obs>>
  /\ UNCHANGED <<health, events, polls>>
  /\ UNCHANGED sortVars

\* what follows panda.recover(): the second if panda.bootstub
AfterRecoverIgnored(bootstub) == "verify"

\* a panda still in bootstub is flashed again
AfterRecoverFlashAgain(bootstub) == IF bootstub THEN "flash" ELSE "verify"

AfterRecover(bootstub) == IF bootstub THEN "crashed" ELSE "verify"

\* panda.get_version(); panda.recover(); if panda.bootstub: raise
FlashPandaRecover ==
  /\ pc = "recover"
  /\ calls' = calls \o << <<"get_version", panda.serial>>, <<"recover", panda.serial>> >>
  /\ \/ /\ Raise("driver")
        /\ UNCHANGED panda
     \/ \E bootstub \in BOOLEAN :
          /\ panda' = [panda EXCEPT !.bootstub = bootstub]
          /\ pc' = AfterRecover(bootstub)
          /\ failure' = IF pc' = "crashed" THEN "still_bootstub" ELSE failure
  /\ UNCHANGED <<dfu, serials, idx, pandas, panda_serials, heartbeatLost,
                 returncode, obs>>
  /\ UNCHANGED <<health, events, polls>>
  /\ UNCHANGED sortVars

\* the last if of flash_panda: the signatures agree
SignatureOkWhenExpectedKnown(panda_signature, fw_signature) ==
  fw_signature = EmptySig \/ panda_signature = fw_signature

SignatureOkAlways(panda_signature, fw_signature) == TRUE

SignatureOk(panda_signature, fw_signature) == panda_signature = fw_signature

\* panda.get_signature(), the last check, return panda; r.append, next serial
FlashPandaVerify ==
  /\ pc = "verify"
  /\ calls' = Append(calls, <<"get_signature", panda.serial>>)
  /\ \E panda_signature \in Signatures :
       /\ obs' = Append(obs, [serial |-> panda.serial,
                              clean0 |-> (~panda.bootstub0
                                          /\ panda.panda_signature = panda.fw_signature),
                              bootstub0 |-> panda.bootstub0,
                              bootstub1 |-> panda.bootstub1,
                              bootstub |-> panda.bootstub,
                              match |-> (panda_signature = panda.fw_signature)])
       /\ IF SignatureOk(panda_signature, panda.fw_signature)
          THEN /\ pandas' = Append(pandas, [serial |-> panda.serial,
                                            bootstub |-> panda.bootstub,
                                            open |-> TRUE])
               /\ panda' = NoPanda
               /\ IF idx = Len(serials)
                  THEN pc' = "health" /\ idx' = 1
                  ELSE pc' = "open" /\ idx' = idx + 1
               /\ UNCHANGED failure
          ELSE /\ Raise("mismatch")
               /\ panda' = [panda EXCEPT !.panda_signature = panda_signature]
               /\ UNCHANGED <<pandas, idx>>
  /\ UNCHANGED <<dfu, serials, panda_serials, heartbeatLost, returncode>>
  /\ UNCHANGED <<health, events, polls>>
  /\ UNCHANGED sortVars

\* ------------------------------------------------------------------
\* main
\* ------------------------------------------------------------------
\* put_bool with the value read, whatever the flag was
HeartbeatFlagOverwrite(flag, heartbeat_lost) == heartbeat_lost

\* if health["heartbeat_lost"]: Params().put_bool("PandaHeartbeatLost", True)
HeartbeatFlag(flag, heartbeat_lost) == flag \/ heartbeat_lost

\* the calls of one round in the other order
HealthCallsResetFirst(serial) == << <<"reset", serial>>, <<"health", serial>> >>

\* the driver calls of one round of the health loop
HealthCalls(serial) == << <<"health", serial>>, <<"reset", serial>> >>

\* one round of the health loop: panda.health(), the flag and the event,
\* panda.reset()
HealthReset ==
  /\ pc = "health"
  /\ LET serial == pandas[idx].serial IN
     \/ /\ calls' = Append(calls, HealthCalls(serial)[1])
        /\ Raise("driver")
        /\ UNCHANGED <<heartbeatLost, idx, health, events>>
     \/ \E heartbeat_lost \in BOOLEAN :
          /\ health' = [heartbeat_lost |-> heartbeat_lost]
          /\ heartbeatLost' = HeartbeatFlag(heartbeatLost, heartbeat_lost)
          /\ events' = IF heartbeat_lost THEN Append(events, serial) ELSE events
          /\ calls' = calls \o HealthCalls(serial)
          /\ \/ /\ Raise("driver")
                /\ UNCHANGED idx
             \/ /\ IF idx = Len(pandas)
                   THEN pc' = "sort" /\ idx' = 1
                   ELSE pc' = "health" /\ idx' = idx + 1
                /\ UNCHANGED failure
  /\ UNCHANGED <<dfu, serials, panda, pandas, panda_serials, returncode, obs>>
  /\ UNCHANGED polls
  /\ UNCHANGED sortVars

\* the serial of the first panda only
SerialsOfFirst(ps) == <<ps[1].serial>>

\* list(map(lambda p: p._serial, pandas))
SerialsOf(ps) == [i \in 1..Len(ps) |-> ps[i].serial]

\* pandas.sort(key=cmp_to_key(panda_sort_cmp)); the list of the serials.
\* get_type() is first called here: type[i] is what pandas[i] answers
SortPandas ==
  /\ pc = "sort"
  /\ \E type \in [1..Len(pandas) -> AttachedTypes] :
       pandas' = Sort([i \in 1..Len(pandas) |->
                         [serial |-> pandas[i].serial, type |-> type[i],
                          bootstub |-> pandas[i].bootstub, open |-> pandas[i].open]])
  /\ panda_serials' = SerialsOf(pandas')
  /\ pc' = "close"
  /\ idx' = 1
  /\ UNCHANGED <<dfu, serials, panda, heartbeatLost, returncode, failure, calls, obs>>
  /\ UNCHANGED <<health, events, polls>>
  /\ UNCHANGED sortVars

\* a close() that leaves the handle open
ClosedNot(p) == p

\* p.close(): the handle is released
Closed(p) == [p EXCEPT !.open = FALSE]

\* one round of the close loop: p.close()
ClosePanda ==
  /\ pc = "close"
  /\ calls' = Append(calls, <<"close", pandas[idx].serial>>)
  /\ pandas' = [pandas EXCEPT ![idx] = Closed(pandas[idx])]
  /\ IF idx = Len(pandas)
     THEN pc' = "launch" /\ idx' = 1
     ELSE pc' = "close" /\ idx' = idx + 1
  /\ UNCHANGED <<dfu, serials, panda, panda_serials, heartbeatLost, returncode,
                 failure, obs>>
  /\ UNCHANGED <<health, events, polls>>
  /\ UNCHANGED sortVars

\* os.chdir; subprocess.run(["./boardd", *panda_serials], check=True) starts boardd
RunBoardd ==
  /\ pc = "launch"
  /\ pc' = "boardd"
  /\ calls' = Append(calls, <<"boardd", << >> >>)
  /\ UNCHANGED <<dfu, serials, idx, panda, pandas, panda_serials, heartbeatLost,
                 returncode, failure, obs>>
  /\ UNCHANGED <<health, events, polls>>
  /\ UNCHANGED sortVars

\* check=True: what subprocess.run does with the exit code of boardd
CheckIgnored(code) == "start"

Check(code) == IF code # 0 THEN "crashed" ELSE "start"

\* boardd exits: CalledProcessError, or the next round of while True
BoarddExit ==
  /\ pc = "boardd"
  /\ \E code \in ExitCodes :
       /\ returncode' = <<code>>
       /\ pc' = Check(code)
       /\ IF pc' = "crashed"
          THEN /\ failure' = "daemon"
               /\ UNCHANGED <<dfu, serials, pandas, panda_serials, calls, obs,
                              health, events>>
          ELSE /\ serials' = << >>
               /\ dfu' = << >>
               /\ pandas' = << >>
               /\ panda_serials' = << >>
               /\ calls' = << >>
               /\ obs' = << >>
               /\ health' = NoHealth
               /\ events' = << >>
               /\ UNCHANGED failure
  /\ UNCHANGED <<idx, panda, heartbeatLost>>
  /\ UNCHANGED polls
  /\ UNCHANGED sortVars

Next ==
  \/ ListDFU
  \/ DfuRecover
  \/ PandaList
  \/ FlashPandaOpen
  \/ FlashPandaFlash
  \/ FlashPandaRecover
  \/ FlashPandaVerify
  \/ HealthReset
  \/ SortPandas
  \/ ClosePanda
  \/ RunBoardd
  \/ BoarddExit

Spec == Init /\ [][Next]_vars

\* ------------------------------------------------------------------
\* The sort on its own: every list of at most MaxSort boards
\* ------------------------------------------------------------------
BoardLists ==
  UNION {[1..n -> [serial : SortSerials, type : HwTypes]] : n \in 1..MaxSort}

SortInit ==
  /\ MainInit
  /\ sortpc = "input"
  /\ boards \in {b \in BoardLists : \A i, j \in 1..Len(b) : i # j => b[i] # b[j]}
  /\ sorted = << >>
  /\ resorted = << >>
  /\ other = << >>
  /\ otherSorted = << >>

\* pandas.sort(key=cmp_to_key(panda_sort_cmp)) on the list given
SortBoards ==
  /\ sortpc = "input"
  /\ sorted' = Sort(boards)
  /\ sortpc' = "sorted"
  /\ UNCHANGED <<boards, resorted, other, otherSorted>>
  /\ UNCHANGED mainVars

\* the sort applied to its own result
SortAgain ==
  /\ sortpc = "sorted"
  /\ resorted' = Sort(sorted)
  /\ sortpc' = "resorted"
  /\ UNCHANGED <<boards, sorted, other, otherSorted>>
  /\ UNCHANGED mainVars

\* another run: the same boards, enumerated in another order
SortOther ==
  /\ sortpc = "sorted"
  /\ \E f \in InjSeqs(1..Len(boards), Len(boards)) :
       /\ other' = [i \in 1..Len(boards) |-> boards[f[i]]]
       /\ otherSorted' = Sort(other')
  /\ sortpc' = "other"
  /\ UNCHANGED <<boards, sorted, resorted>>
  /\ UNCHANGED mainVars

SortNext ==
  \/ SortBoards
  \/ SortAgain
  \/ SortOther

SortSpec == SortInit /\ [][SortNext]_vars

\* ------------------------------------------------------------------
\* Reading the history
\* ------------------------------------------------------------------
\* the positions of calls where op was called on serial
CallsOf(op, serial) == {k \in 1..Len(calls) : calls[k] = <<op, serial>>}

\* the serials of the Panda objects in pandas
PandaSerials == {pandas[i].serial : i \in 1..Len(pandas)}

Internal(p) == p.type \in INTERNAL_TYPES

\* the calls made on a Panda object (the DFU serials are another namespace)
PandaCalls == {"open", "get_version", "get_signature", "flash", "recover",
               "health", "reset", "close"}

\* ------------------------------------------------------------------
\* Claims
\* ------------------------------------------------------------------
\* C1: every serial given to boardd belongs to a panda on which flash_panda,
\* in this iteration, saw bootstub false and a re-read signature equal to the
\* expected one; a panda whose re-read signature differs ends the process
\* with the mismatch failure and its serial is never given to boardd.
HandoffVerified ==
  /\ pc = "boardd" =>
       \A i \in 1..Len(panda_serials) :
         \E k \in 1..Len(obs) :
           /\ obs[k].serial = panda_serials[i]
           /\ ~obs[k].bootstub
           /\ obs[k].match
  /\ \A k \in 1..Len(obs) :
       ~obs[k].match =>
         /\ pc = "crashed"
         /\ failure = "mismatch"
         /\ obs[k].serial \notin PandaSerials
         /\ obs[k].serial \notin Range(panda_serials)

\* boardd runs on two serials, one of a panda that was flashed and recovered
HandoffVerifiedWitness ==
  /\ pc = "boardd"
  /\ Len(panda_serials) = 2
  /\ \E i \in 1..2 : CallsOf("recover", panda_serials[i]) # {}

\* C2: a failure in flash_panda or of a driver call ends the iteration and
\* the process: nothing is retried, no later serial of the enumeration is
\* opened or flashed, and boardd is not run in that iteration.
AbortedIteration ==
  failure \in {"driver", "still_bootstub", "mismatch"} =>
    /\ pc = "crashed"
    /\ ~ENABLED Next
    /\ \A k \in 1..Len(calls) : calls[k][1] # "boardd"
    /\ \A j \in (Len(pandas) + 2)..Len(serials) :
         \A k \in 1..Len(calls) :
           calls[k][1] \in PandaCalls => calls[k][2] # serials[j]

\* the first of two pandas failed its last check: the second was never opened
AbortedIterationWitness ==
  /\ failure = "mismatch"
  /\ Len(serials) = 2
  /\ pandas = << >>
  /\ CallsOf("flash", serials[1]) # {}

\* C3: a panda that when opened is not in bootstub and has the expected
\* signature is never flashed nor recovered, and when its signature reads
\* the same again flash_panda returns it.
CleanPandaUntouched ==
  /\ pc \in {"flash", "recover"} =>
       ~(~panda.bootstub0 /\ panda.panda_signature = panda.fw_signature)
  /\ \A k \in 1..Len(obs) :
       obs[k].clean0 =>
         /\ CallsOf("flash", obs[k].serial) = {}
         /\ CallsOf("recover", obs[k].serial) = {}
         /\ obs[k].match => obs[k].serial \in PandaSerials

\* boardd runs on a panda that was up to date when opened
CleanPandaUntouchedWitness ==
  /\ pc = "boardd"
  /\ \E k \in 1..Len(obs) : obs[k].clean0 /\ obs[k].match

\* C4: recover() is never the first write on a panda: every recover() on a
\* panda comes after a flash() on the same panda, also when the panda was
\* in bootstub when opened.
FlashBeforeRecover ==
  \A j \in 1..Len(calls) :
    calls[j][1] = "recover" =>
      \E i \in 1..(j - 1) : calls[i] = <<"flash", calls[j][2]>>

\* a panda opened in bootstub has just been recovered
FlashBeforeRecoverWitness ==
  /\ panda.bootstub0
  /\ Len(calls) > 0
  /\ calls[Len(calls)] = <<"recover", panda.serial>>

\* C5: a panda that is in bootstub right after recover() ends the process
\* with the still-in-bootstub failure, recover() being the last call made.
StillInBootstubStops ==
  (panda.bootstub /\ CallsOf("recover", panda.serial) # {} /\ failure # "driver") =>
    /\ pc = "crashed"
    /\ failure = "still_bootstub"
    /\ calls[Len(calls)] = <<"recover", panda.serial>>
    /\ ~ENABLED Next

\* the second panda of the iteration is still in bootstub after recover()
StillInBootstubStopsWitness ==
  /\ failure = "still_bootstub"
  /\ Len(pandas) = 1
  /\ panda.bootstub

\* C6: in the arguments of boardd every panda of an internal type comes
\* before every panda of another type.
InternalFirst ==
  pc = "boardd" =>
    /\ panda_serials = [i \in 1..Len(pandas) |-> pandas[i].serial]
    /\ \A i, j \in 1..Len(pandas) :
         (i < j) => ~(~Internal(pandas[i]) /\ Internal(pandas[j]))

\* enumeration returned the external panda first and boardd gets it last
InternalFirstWitness ==
  /\ pc = "boardd"
  /\ Len(pandas) = 2
  /\ Internal(pandas[1])
  /\ ~Internal(pandas[2])
  /\ serials = <<pandas[2].serial, pandas[1].serial>>

\* C7: the sort puts pandas of the same internal/external class in ascending
\* order of hardware type, and pandas of the same type in ascending order of
\* serial.
SortedByTypeThenSerial ==
  sortpc = "sorted" =>
    \A i, j \in 1..Len(sorted) :
      (i < j /\ Internal(sorted[i]) = Internal(sorted[j])) =>
        \/ sorted[i].type < sorted[j].type
        \/ /\ sorted[i].type = sorted[j].type
           /\ StrLess(sorted[i].serial, sorted[j].serial)

\* C8: the sorted list depends on the set of boards only: the same boards
\* enumerated in another order sort to the same list.
OrderIndependent ==
  sortpc = "other" => otherSorted = sorted

\* C9: sorting a list that the sort produced gives the same list.
SortIdempotent ==
  sortpc = "resorted" => resorted = sorted

\* three boards that the sort reordered have been sorted a second time
SortIdempotentWitness ==
  /\ sortpc = "resorted"
  /\ Len(boards) = 3
  /\ sorted # boards
  /\ \E i \in 1..3 : Internal(boards[i])
  /\ \E i \in 1..3 : ~Internal(boards[i])

\* C10 as stated: after boardd exits, with any exit code, main() is at the
\* start of a new iteration.
AnyExitRestarts ==
  returncode # << >> => pc = "start"

\* C10 as amended: after boardd exits with code 0 main() is at the start of
\* a new iteration, where the DFU pass is the next step; after a non-zero
\* exit code CalledProcessError has ended the process.
ZeroExitRestarts ==
  returncode # << >> =>
    IF returncode[1] = 0
    THEN /\ pc = "start"
         /\ failure = "none"
         /\ calls = << >>
         /\ ENABLED ListDFU
    ELSE /\ pc = "crashed"
         /\ failure = "daemon"
         /\ ~ENABLED Next

\* boardd has exited with code 0, in an iteration that saw a lost heartbeat
ZeroExitRestartsWitness ==
  /\ returncode = <<0>>
  /\ pc = "start"
  /\ heartbeatLost

\* C11: when the signature cannot be extracted from the firmware file,
\* get_expected_signature returns b"" and nothing is raised; a panda that is
\* not in bootstub and reports a non-empty signature is then flashed.
EmptyExpectedForcesFlash ==
  /\ \A mcu_type \in McuTypes : get_expected_signature(mcu_type, FALSE) = EmptySig
  /\ (pc \in {"flash", "recover", "verify"} /\ panda.fw_signature = EmptySig) =>
       failure = "none"
  /\ (pc \in {"recover", "verify"} /\ panda.fw_signature = EmptySig
        /\ ~panda.bootstub0 /\ panda.panda_signature # EmptySig) =>
       CallsOf("flash", panda.serial) # {}
  /\ \A k \in 1..Len(obs) :
       (~obs[k].bootstub0 /\ ~obs[k].clean0) => CallsOf("flash", obs[k].serial) # {}

\* a panda with a signature, not in bootstub, has just been flashed because
\* the expected signature is empty
EmptyExpectedForcesFlashWitness ==
  /\ pc \in {"recover", "verify"}
  /\ panda.fw_signature = EmptySig
  /\ ~panda.bootstub0
  /\ panda.panda_signature # EmptySig
  /\ calls[Len(calls)] = <<"flash", panda.serial>>

\* the serial of the panda whose health was read last (a health() that
\* raised read nothing)
LastHealthSerial ==
  LET ks == {k \in 1..Len(calls) :
               calls[k][1] = "health" /\ ~(failure = "driver" /\ k = Len(calls))}
  IN  calls[CHOOSE k \in ks : \A j \in ks : j <= k][2]

\* C12: a lost heartbeat is not a failure: when the health record of a panda
\* has heartbeat_lost set, PandaHeartbeatLost is true and the event is
\* emitted for that panda, and the panda is reset in the same round; when
\* boardd runs, every panda with an event was reset after its health was
\* read, was closed, and its serial is an argument of boardd.
HeartbeatLostNotFatal ==
  /\ events # << >> => heartbeatLost
  /\ health.heartbeat_lost =>
       /\ heartbeatLost
       /\ events # << >>
       /\ events[Len(events)] = LastHealthSerial
       /\ CallsOf("reset", LastHealthSerial) # {}
       /\ failure \in {"none", "driver", "daemon"}
  /\ pc = "boardd" =>
       \A e \in 1..Len(events) :
         /\ \E h \in CallsOf("health", events[e]) :
              \E r \in CallsOf("reset", events[e]) :
                \E c \in CallsOf("close", events[e]) : h < r /\ r < c
         /\ events[e] \in Range(panda_serials)
         /\ Len(panda_serials) = Len(serials)

\* boardd runs on two pandas; only the first one checked had lost its heartbeat
HeartbeatLostNotFatalWitness ==
  /\ pc = "boardd"
  /\ Len(pandas) = 2
  /\ Len(events) = 1
  /\ events[1] = serials[1]
  /\ ~health.heartbeat_lost

\* what flash_panda saw on the panda with this serial
ObsOf(serial) == obs[CHOOSE k \in 1..Len(obs) : obs[k].serial = serial]

\* boardd runs on an internal panda i that was up to date when opened and an
\* external panda e that was opened in bootstub and that flash() brought out
\* of bootstub with the expected signature
OneVerifiedOneBootstub(i, e) ==
  /\ pc = "boardd"
  /\ Len(pandas) = 2
  /\ i # e
  /\ Internal(pandas[i])
  /\ ~Internal(pandas[e])
  /\ ObsOf(pandas[i].serial).clean0
  /\ ObsOf(pandas[i].serial).match
  /\ ObsOf(pandas[e].serial).bootstub0
  /\ ~ObsOf(pandas[e].serial).bootstub1
  /\ ObsOf(pandas[e].serial).match

\* C13: with one internal panda already verified and one external panda in
\* bootstub that flash() repairs, in either order of enumeration: flash() is
\* called once, on the external panda, recover() is never called, and boardd
\* gets the internal serial and then the external serial.
ScenarioInternalThenExternal ==
  \A i, e \in 1..Len(pandas) :
    OneVerifiedOneBootstub(i, e) =>
      /\ Cardinality({k \in 1..Len(calls) : calls[k][1] = "flash"}) = 1
      /\ Cardinality(CallsOf("flash", pandas[e].serial)) = 1
      /\ {k \in 1..Len(calls) : calls[k][1] = "recover"} = {}
      /\ panda_serials = <<pandas[i].serial, pandas[e].serial>>
      /\ i = 1

\* the scenario, the external panda being the first that enumeration returned
ScenarioInternalThenExternalWitness ==
  \E i, e \in 1..Len(pandas) :
    /\ OneVerifiedOneBootstub(i, e)
    /\ serials = <<pandas[e].serial, pandas[i].serial>>

\* the DFU recoveries of this iteration: one on each device listed, in order
DfuRecoveries == [k \in 1..Len(dfu) |-> <<"dfu_recover", dfu[k]>>]

\* C14: the DFU recovery is issued on every device PandaDFU.list() returned
\* before Panda.list() is polled for the first time, and as long as the
\* polls have returned nothing no panda is opened and nothing is flashed.
DfuThenPollThenOpen ==
  /\ pc = "dfu" => (polls = 0 /\ serials = << >>)
  /\ (pc = "poll" \/ polls > 0 \/ serials # << >>) =>
       (Len(calls) >= Len(dfu) /\ SubSeq(calls, 1, Len(dfu)) = DfuRecoveries)
  /\ serials = << >> => \A k \in 1..Len(calls) : calls[k][1] \notin PandaCalls
  /\ pc = "poll" => calls = DfuRecoveries

\* one device was in DFU mode: it was recovered, and the polls have returned
\* nothing so far
DfuThenPollThenOpenWitness ==
  /\ pc = "poll"
  /\ polls > 0
  /\ Len(dfu) = 1
  /\ calls = << <<"dfu_recover", dfu[1]>> >>

\* C15: the poll has no timeout and no cap: an empty Panda.list() always
\* leads to the next poll, without failure and whatever the number of empty
\* polls before; a non-empty one ends the wait, and flash_panda is then
\* called first on the first serial of that list.
PollUntilFound ==
  /\ [](pc = "poll" => ENABLED PandaList)
  /\ [][pc = "poll" =>
          IF serials' = << >>
          THEN pc' = "poll" /\ failure' = "none" /\ calls' = calls
          ELSE pc' = "open" /\ idx' = 1 /\ calls' = calls]_vars
  /\ [][(pc = "open" /\ idx = 1) =>
          (Len(calls') > Len(calls)
             /\ calls'[Len(calls) + 1] = <<"open", serials[1]>>)]_vars

\* MaxPolls or more polls in a row have returned nothing
PollUntilFoundWitness ==
  /\ pc = "poll"
  /\ polls = MaxPolls
  /\ dfu = << >>

\* C16: when boardd is started every handle opened in this iteration is
\* closed, each panda was reset before it was closed, and no driver call
\* follows the start of boardd; when an iteration starts no Panda object of
\* the iteration before is left and no call on a panda has been made.
HandlesClosedAtLaunch ==
  /\ pc = "boardd" =>
       /\ \A i \in 1..Len(pandas) : ~pandas[i].open
       /\ \A k \in 1..Len(calls) :
            calls[k][1] = "open" =>
              \E c \in (k + 1)..Len(calls) :
                /\ calls[c] = <<"close", calls[k][2]>>
                /\ \E r \in (k + 1)..(c - 1) : calls[r] = <<"reset", calls[k][2]>>
       /\ calls[Len(calls)] = <<"boardd", << >> >>
  /\ pc \in {"start", "dfu", "poll"} =>
       /\ pandas = << >>
       /\ panda = NoPanda
       /\ \A k \in 1..Len(calls) : calls[k][1] \notin PandaCalls

\* boardd runs after two handles were opened, reset and closed
HandlesClosedAtLaunchWitness ==
  /\ pc = "boardd"
  /\ Len(pandas) = 2
  /\ \A s \in Range(serials) : CallsOf("close", s) # {}

\* C17: in one iteration flash() is called at most once and recover() at
\* most once on a panda, whatever the panda reports.
SinglePass ==
  \A j \in 1..Len(calls) :
    calls[j][1] \in {"flash", "recover"} =>
      \A k \in (j + 1)..Len(calls) : calls[k] # calls[j]

\* boardd runs on a panda that was flashed once and recovered once
SinglePassWitness ==
  /\ pc = "boardd"
  /\ \E s \in Range(serials) :
       /\ Cardinality(CallsOf("flash", s)) = 1
       /\ Cardinality(CallsOf("recover", s)) = 1

\* every panda is reset before the sort and before any close()
ResetBeforeSortAndClose ==
  /\ \A c \in 1..Len(calls) :
       calls[c][1] = "close" =>
         \A r \in (c + 1)..Len(calls) : calls[r][1] # "reset"
  /\ pc \in {"close", "launch", "boardd"} =>
       \A i \in 1..Len(serials) :
         \E r \in 1..Len(calls) : calls[r] = <<"reset", serials[i]>>

\* C18 as stated: health() is read from every panda before any reset(), and
\* every panda is reset before the sort and before any close().
PhasesOneAfterAnother ==
  /\ \A r \in 1..Len(calls) :
       calls[r][1] = "reset" =>
         \A h \in (r + 1)..Len(calls) : calls[h][1] # "health"
  /\ ResetBeforeSortAndClose

\* C18 as amended: health() and reset() alternate, panda by panda: every
\* reset() directly follows the health() of the same panda, and every
\* health() that returned is directly followed by the reset() of that panda;
\* every panda is reset before the sort and before any close().
HealthResetRounds ==
  /\ \A k \in 1..Len(calls) :
       /\ calls[k][1] = "reset" =>
            k > 1 /\ calls[k - 1] = <<"health", calls[k][2]>>
       /\ calls[k][1] = "health" =>
            IF k < Len(calls)
            THEN calls[k + 1] = <<"reset", calls[k][2]>>
            ELSE pc = "crashed" /\ failure = "driver"
  /\ ResetBeforeSortAndClose

\* two pandas are about to be sorted: the first was reset before the health
\* of the second was read
HealthResetRoundsWitness ==
  /\ pc = "sort"
  /\ Len(pandas) = 2
  /\ \E r \in CallsOf("reset", pandas[1].serial) :
       \E h \in CallsOf("health", pandas[2].serial) : r < h

\* C19: the arguments of boardd are the serials of the poll that ended the
\* wait, each exactly once and no other: a non-empty permutation.
ArgsArePermutation ==
  pc = "boardd" =>
    /\ Len(panda_serials) > 0
    /\ Len(panda_serials) = Len(serials)
    /\ Range(panda_serials) = Range(serials)
    /\ \A i, j \in 1..Len(panda_serials) :
         i # j => panda_serials[i] # panda_serials[j]

\* boardd gets the two serials in the other order than the poll returned them
ArgsArePermutationWitness ==
  /\ pc = "boardd"
  /\ Len(serials) = 2
  /\ panda_serials = <<serials[2], serials[1]>>

\* C20: with an empty expected signature, a panda whose re-read signature
\* is not empty fails the last check: the process ends with the mismatch
\* failure and boardd is not run; flash_panda returns the panda only when
\* the re-read signature is empty too.
EmptyExpectedMismatchFatal ==
  /\ [][(pc = "verify" /\ panda.fw_signature = EmptySig) =>
          /\ Len(obs') = Len(obs) + 1
          /\ obs'[Len(obs')].serial = panda.serial
          /\ IF obs'[Len(obs')].match
             THEN /\ pc' \in {"open", "health"}
                  /\ pandas'[Len(pandas')].serial = panda.serial
             ELSE /\ pc' = "crashed"
                  /\ failure' = "mismatch"
                  /\ panda'.panda_signature # EmptySig
                  /\ pandas' = pandas]_vars
  /\ [](failure = "mismatch" =>
          /\ pc = "crashed"
          /\ ~ENABLED Next
          /\ \A k \in 1..Len(calls) : calls[k][1] # "boardd")

\* a flashed panda reports a signature while the expected one is empty
EmptyExpectedMismatchFatalWitness ==
  /\ failure = "mismatch"
  /\ panda.fw_signature = EmptySig
  /\ panda.panda_signature # EmptySig
  /\ CallsOf("flash", panda.serial) # {}

====
